---------------------------- MODULE Spec2Model ----------------------------
(***************************************************************************)
(* A model of pottytrainer's main.py: the food journal's rows, the         *)
(* Cupboard of Food counters, the correlation pass of main and the report. *)
(*                                                                         *)
(* Python strings are sequences of one-character strings, so that          *)
(* str.strip, str.lower and the alias lookup are computed, not assumed.    *)
(* A datetime is its wall-clock reading in seconds with an optional UTC    *)
(* offset; a float is an IEEE-754 double restricted to the values the      *)
(* confidence formula produces (53 fraction bits, round to nearest even).  *)
(***************************************************************************)
EXTENDS Integers, Sequences, FiniteSets, TLC

VARIABLES
    doc,      \* tables[0].rows()[1:]: the raw rows of the sheet
    rows,     \* main's list `rows` of Row objects
    pc,       \* where main (or the caller of the Cupboard) stands
    i,        \* index of the outer loop `for pooprow in rows`
    foods,    \* Cupboard._foods: canonical name -> Food
    report,   \* the table lines main appends to `s`, one per listed food
    error,    \* the exception that ended the run, or NoError
    table,    \* the ingredient table Cupboard.components reads
    stack,    \* the activation records of Cupboard.components
    ret       \* the set returned by the outermost Cupboard.components

vars == <<doc, rows, pc, i, foods, report, error, table, stack, ret>>

(***************************************************************************)
(* Bounds of the model.                                                    *)
(***************************************************************************)
MaxRows == 3
MaxCalls == 3
MaxDepth == 5

(***************************************************************************)
(* String literals of the source and of the modelled journal.              *)
(***************************************************************************)
s_450_0 == <<"4","5","0",".","0">>
s_alcohol == <<"a","l","c","o","h","o","l">>
s_bad_poop == <<"b","a","d"," ","p","o","o","p">>
s_baking_powder == <<"b","a","k","i","n","g"," ","p","o","w","d","e","r">>
s_baking_soda == <<"b","a","k","i","n","g"," ","s","o","d","a">>
s_bread == <<"b","r","e","a","d">>
s_butter == <<"b","u","t","t","e","r">>
s_cake == <<"c","a","k","e">>
s_cheese == <<"c","h","e","e","s","e">>
s_chocolate == <<"c","h","o","c","o","l","a","t","e">>
s_cocktail == <<"c","o","c","k","t","a","i","l">>
s_coffee == <<"c","o","f","f","e","e">>
s_cream_cheese == <<"c","r","e","a","m"," ","c","h","e","e","s","e">>
s_dairy == <<"d","a","i","r","y">>
s_eggs == <<"e","g","g","s">>
s_eggs_benedict == <<"e","g","g","s"," ","b","e","n","e","d","i","c","t">>
s_english_muffin == <<"e","n","g","l","i","s","h"," ","m","u","f","f","i","n">>
s_flour == <<"f","l","o","u","r">>
s_good_poop == <<"g","o","o","d"," ","p","o","o","p">>
s_grilled_cold_noodles == <<"g","r","i","l","l","e","d"," ","c","o","l","d"," ","n","o","o","d","l","e","s">>
s_hot_chocolate == <<"h","o","t"," ","c","h","o","c","o","l","a","t","e">>
s_kao_leng_mian == <<"k","a","o"," ","l","e","n","g"," ","m","i","a","n">>
s_kbbq_rub == <<"k","b","b","q"," ","r","u","b">>
s_latkes == <<"l","a","t","k","e","s">>
s_latte == <<"l","a","t","t","e">>
s_milk == <<"m","i","l","k">>
s_noodles == <<"n","o","o","d","l","e","s">>
s_oat_milk == <<"o","a","t"," ","m","i","l","k">>
s_oatmeal == <<"o","a","t","m","e","a","l">>
s_oatmilk == <<"o","a","t","m","i","l","k">>
s_oats == <<"o","a","t","s">>
s_old_fashioned == <<"o","l","d"," ","f","a","s","h","i","o","n","e","d">>
s_pizza == <<"p","i","z","z","a">>
s_potato == <<"p","o","t","a","t","o">>
s_spicy == <<"s","p","i","c","y">>
s_sugar == <<"s","u","g","a","r">>
s_tomato == <<"t","o","m","a","t","o">>
s_whiskey == <<"w","h","i","s","k","e","y">>
s_wine == <<"w","i","n","e">>

\* Labels as they may stand in the sheet: padded and capitalised.
s_Bad_Poop_pad == <<"B","a","d"," ","P","o","o","p"," ">>
s_pad_Oat_Milk == <<" ","O","a","t"," ","M","i","l","k">>
s_450_0_pad == <<"4","5","0",".","0"," ">>

(***************************************************************************)
(* The module-level tables of main.py.                                     *)
(***************************************************************************)
IGNORE_FOODS == {s_450_0}

ALIASES ==
    s_grilled_cold_noodles :> s_kao_leng_mian @@
    s_oat_milk :> s_oatmilk

INGREDIENTS ==
    s_cake :> {s_baking_powder, s_baking_soda, s_butter, s_eggs, s_flour, s_sugar} @@
    s_cocktail :> {s_alcohol} @@
    s_cheese :> {s_dairy} @@
    s_cream_cheese :> {s_cheese} @@
    s_eggs_benedict :> {s_eggs, s_english_muffin} @@
    s_hot_chocolate :> {s_chocolate} @@
    s_kao_leng_mian :> {s_eggs, s_kbbq_rub, s_noodles, s_spicy} @@
    s_latkes :> {s_potato} @@
    s_latte :> {s_coffee, s_milk} @@
    s_milk :> {s_dairy} @@
    s_oatmeal :> {s_oats} @@
    s_oatmilk :> {s_oats} @@
    s_old_fashioned :> {s_whiskey} @@
    s_pizza :> {s_bread, s_cheese, s_tomato} @@
    s_wine :> {s_alcohol}

(***************************************************************************)
(* str.strip() and str.lower().                                            *)
(***************************************************************************)
Whitespace == {" ", "\t", "\n", "\r"}

LowerOf ==
    "A" :> "a" @@ "B" :> "b" @@ "C" :> "c" @@ "D" :> "d" @@ "E" :> "e" @@
    "F" :> "f" @@ "G" :> "g" @@ "H" :> "h" @@ "I" :> "i" @@ "J" :> "j" @@
    "K" :> "k" @@ "L" :> "l" @@ "M" :> "m" @@ "N" :> "n" @@ "O" :> "o" @@
    "P" :> "p" @@ "Q" :> "q" @@ "R" :> "r" @@ "S" :> "s" @@ "T" :> "t" @@
    "U" :> "u" @@ "V" :> "v" @@ "W" :> "w" @@ "X" :> "x" @@ "Y" :> "y" @@
    "Z" :> "z"

lower(str) ==
    [k \in 1..Len(str) |->
        IF str[k] \in DOMAIN LowerOf THEN LowerOf[str[k]] ELSE str[k]]

RECURSIVE lstrip(_)
lstrip(str) ==
    IF str = <<>> THEN str
    ELSE IF Head(str) \in Whitespace THEN lstrip(Tail(str))
    ELSE str

RECURSIVE rstrip(_)
rstrip(str) ==
    IF str = <<>> THEN str
    ELSE IF str[Len(str)] \in Whitespace THEN rstrip(SubSeq(str, 1, Len(str) - 1))
    ELSE str

strip(str) == rstrip(lstrip(str))

(***************************************************************************)
(* class Food.                                                             *)
(***************************************************************************)
GOOD == s_good_poop
BAD == s_bad_poop

Food(name) == [name |-> name, num_good_poops |-> 0, num_bad_poops |-> 0]

addpoop(food, pooptype) ==
    IF pooptype = GOOD
    THEN [food EXCEPT !.num_good_poops = @ + 1]
    ELSE IF pooptype = BAD
    THEN [food EXCEPT !.num_bad_poops = @ + 1]
    ELSE food

\* quality() as the exact fraction <<numerator, denominator>>.  The source
\* divides two floats; for counters below 2^26 the rounded quotients of two
\* different fractions differ and are ordered as the fractions are.
quality(food) ==
    IF food.num_bad_poops = 0 THEN <<0, 1>>
    ELSE <<food.num_good_poops, food.num_bad_poops>>

QualityLE(q1, q2) == q1[1] * q2[2] <= q2[1] * q1[2]


(***************************************************************************)
(* Python floats.  A value is  (-1)^neg * (int + 0.frac)  with MantissaBits *)
(* fraction bits, which is exact for every double main.py computes in      *)
(* confidence(): 0.0, the quotients n/(n+1) in [1/2, 1], the literals 0.5  *)
(* and 0.9, and the differences and doublings of those.                    *)
(***************************************************************************)
MantissaBits == 53

Zeros(k) == [x \in 1..k |-> 0]

FloatZero == [neg |-> FALSE, int |-> 0, frac |-> Zeros(MantissaBits)]
FloatOne == [neg |-> FALSE, int |-> 1, frac |-> Zeros(MantissaBits)]
FloatHalf == [neg |-> FALSE, int |-> 0, frac |-> <<1>> \o Zeros(MantissaBits - 1)]

\* 2^k modulo d, by repeated squaring.
RECURSIVE Pow2Mod(_, _)
Pow2Mod(k, d) ==
    IF k = 0 THEN 1 % d
    ELSE LET h == Pow2Mod(k \div 2, d)
         IN  (h * h * (IF k % 2 = 1 THEN 2 ELSE 1)) % d

\* What long division of r by d (0 <= r < d) leaves after k quotient bits.
Remainder(r, d, k) == (r * Pow2Mod(k, d)) % d

\* The first k bits of the binary expansion of r/d (0 <= r < d) by long
\* division, and the remainder left after them.
DivBits(r, d, k) ==
    [bits |-> [x \in 1..k |-> (2 * Remainder(r, d, x - 1)) \div d],
     rem |-> Remainder(r, d, k)]

\* bits + 1 ulp; carry is 1 when the increment overflows into the integer part.
Increment(bits) ==
    LET zeros == {x \in 1..Len(bits) : bits[x] = 0}
    IN  IF zeros = {} THEN [bits |-> [x \in 1..Len(bits) |-> 0], carry |-> 1]
        ELSE LET p == CHOOSE x \in zeros : \A y \in zeros : y <= x
             IN  [bits |-> [x \in 1..Len(bits) |->
                               IF x < p THEN bits[x] ELSE IF x = p THEN 1 ELSE 0],
                  carry |-> 0]

\* float(n) / float(d) for n = 0 or d/2 <= n < d: the quotient's leading bit
\* is then the first fraction bit, so MantissaBits fraction bits are the
\* double's significand, rounded to nearest, ties to even.
FloatDiv(n, d) ==
    IF n = 0 THEN FloatZero
    ELSE LET q == DivBits(n, d, MantissaBits)
             roundUp == \/ 2 * q.rem > d
                        \/ 2 * q.rem = d /\ q.bits[MantissaBits] = 1
             up == Increment(q.bits)
         IN  IF ~roundUp THEN [neg |-> FALSE, int |-> 0, frac |-> q.bits]
             ELSE IF up.carry = 1 THEN FloatOne
             ELSE [neg |-> FALSE, int |-> 0, frac |-> up.bits]

\* x - 0.5 for x = 0.0 or 0.5 <= x <= 1.0 (exact: no rounding takes place).
FloatSubHalf(x) ==
    IF x.int = 1 THEN FloatHalf
    ELSE IF x.frac[1] = 1 THEN [x EXCEPT !.frac[1] = 0]
    ELSE [FloatHalf EXCEPT !.neg = TRUE]

\* x * 2 for |x| < 1 (exact).
FloatDouble(x) ==
    [neg |-> x.neg, int |-> x.frac[1], frac |-> Tail(x.frac) \o <<0>>]

\* Lexicographic order of bit strings of equal length.
BitsLess(a, b) ==
    \E k \in 1..Len(a) : a[k] < b[k] /\ \A j \in 1..(k - 1) : a[j] = b[j]

Magnitude(x) == <<x.int>> \o x.frac

FloatLess(x, y) ==
    IF x.neg # y.neg THEN x.neg /\ (Magnitude(x) # Magnitude(FloatZero) \/ Magnitude(y) # Magnitude(FloatZero))
    ELSE IF x.neg THEN BitsLess(Magnitude(y), Magnitude(x))
    ELSE BitsLess(Magnitude(x), Magnitude(y))

\* The literal 0.9: the double nearest to 9/10.
THRESHOLD == FloatDiv(9, 10)

confidence(food) ==
    FloatDouble(FloatSubHalf(FloatDiv(
        food.num_good_poops + food.num_bad_poops,
        food.num_good_poops + food.num_bad_poops + 1)))

(***************************************************************************)
(* Exceptions.                                                             *)
(***************************************************************************)
NoError == "none"
NoTimestampError == "Row.NoTimestampError"
IsoformatValueError == "ValueError: Invalid isoformat string"
EmptyMaxValueError == "ValueError: max() arg is an empty sequence"
RecursionError == "RecursionError: maximum recursion depth exceeded"

(***************************************************************************)
(* datetime.  wall is the wall-clock reading in seconds; an aware datetime *)
(* carries its UTC offset in seconds.                                      *)
(***************************************************************************)
PST == -28800

\* The point in time an aware datetime denotes, in seconds of UTC.
Instant(dt) == dt.wall - dt.utcoffset

\* abs(a - b) of two aware datetimes, as a number of seconds.
AbsDelta(a, b) ==
    IF Instant(a) >= Instant(b) THEN Instant(a) - Instant(b)
    ELSE Instant(b) - Instant(a)

(***************************************************************************)
(* class Poop and class Row.                                               *)
(***************************************************************************)
POOP == "poop"
FOOD == "food"

\* Poop.__init__.  Its `raise Exception` needs a type other than the two poop
\* labels; to_poop is only applied to rows of type POOP, whose event is one
\* of them.
Poop(index, datetime, type) == [index |-> index, datetime |-> datetime, type |-> type]

\* Row.__init__: exc is the exception raised, or NoError and row is the Row.
\* raw.label is str(row[1].value); raw.ts is row[0].value, of Python type
\* raw.ts.type.  datetime.fromisoformat returns the datetime a well-formed
\* string denotes and raises ValueError on any other string.
Row(raw) ==
    LET dt == raw.ts
        ev == lower(strip(raw.label))
        parsed == [wall |-> dt.wall, aware |-> dt.aware, utcoffset |-> dt.utcoffset]
        zoned == IF parsed.aware THEN parsed
                 ELSE [parsed EXCEPT !.aware = TRUE, !.utcoffset = PST]
        made == [datetime |-> zoned,
                 event |-> ev,
                 type |-> IF ev \in {s_good_poop, s_bad_poop} THEN POOP ELSE FOOD]
    IN  IF dt.type = "datetime" THEN [exc |-> NoError, row |-> made]
        ELSE IF dt.type = "str"
        THEN IF dt.iso THEN [exc |-> NoError, row |-> made]
             ELSE [exc |-> IsoformatValueError, row |-> made]
        ELSE [exc |-> NoTimestampError, row |-> made]

to_poop(row) == Poop(-1, row.datetime, row.event)

(***************************************************************************)
(* class Cupboard.  _foods is a function from the dictionary's keys to the *)
(* Food stored under each; a Food object is identified by its key.         *)
(***************************************************************************)
\* get without the alias table.
getNoAlias(_foods, name) ==
    LET n == lower(strip(name))
    IN  [foods |-> IF n \in DOMAIN _foods THEN _foods ELSE _foods @@ (n :> Food(n)),
         key |-> n]

\* Cupboard.get: the dictionary after the call and the key of the Food returned.
get(_foods, name) ==
    LET stripped == lower(strip(name))
        n == IF stripped \in DOMAIN ALIASES THEN ALIASES[stripped] ELSE stripped
    IN  [foods |-> IF n \in DOMAIN _foods THEN _foods ELSE _foods @@ (n :> Food(n)),
         key |-> n]

\* components that stops at the food's own ingredients.
componentsShallow(_foods, name) ==
    LET g == get(_foods, name)
        direct == IF g.key \in DOMAIN INGREDIENTS THEN INGREDIENTS[g.key] ELSE {}
        keys == {g.key} \cup {get(g.foods, f).key : f \in direct}
    IN  [foods |-> [k \in DOMAIN g.foods \cup keys |->
                       IF k \in DOMAIN g.foods THEN g.foods[k] ELSE Food(k)],
         s |-> keys]

\* Cupboard.components over the module's INGREDIENTS: the dictionary after
\* the call and the keys of the Foods in the returned set.  The loop over the
\* ingredient set runs in the set's iteration order; the result does not
\* depend on it, so the model takes the elements in a fixed order.
RECURSIVE componentsLoop(_, _, _)
RECURSIVE components(_, _)
components(_foods, name) ==
    LET g == get(_foods, name)
    IN  componentsLoop(g.foods, {g.key},
            IF g.key \in DOMAIN INGREDIENTS THEN INGREDIENTS[g.key] ELSE {})

componentsLoop(_foods, s, todo) ==
    IF todo = {} THEN [foods |-> _foods, s |-> s]
    ELSE LET f == CHOOSE x \in todo : TRUE
             c == components(_foods, f)
         IN  componentsLoop(c.foods, s \cup c.s, todo \ {f})

all(_foods) == {_foods[k] : k \in DOMAIN _foods}

(***************************************************************************)
(* main: loading the rows.                                                 *)
(***************************************************************************)
\* The loop that fills `rows`: exc is the exception that leaves main, or
\* NoError, and rows the list built so far.  Every cell of the modelled
\* sheet is a populated Cell object, which is neither None nor "", so the
\* `continue` of the first test is never taken.
RECURSIVE loadRows(_, _)
loadRows(raw, acc) ==
    IF raw = <<>> THEN [exc |-> NoError, rows |-> acc]
    ELSE LET r == Row(Head(raw))
         IN  IF r.exc = NoError THEN loadRows(Tail(raw), Append(acc, r.row))
             ELSE IF r.exc = NoTimestampError THEN loadRows(Tail(raw), acc)
             ELSE [exc |-> r.exc, rows |-> acc]

(***************************************************************************)
(* main: the correlation pass.                                             *)
(***************************************************************************)
Hours24 == 86400

\* The window test with the edge included.
nearInclusive(poop, foodrow) ==
    AbsDelta(poop.datetime, foodrow.datetime) <= Hours24

\* abs(poop.datetime - foodrow.datetime) < timedelta(hours=24)
near(poop, foodrow) ==
    AbsDelta(poop.datetime, foodrow.datetime) < Hours24

\* for food in cupboard.components(foodrow.event): food.addpoop(poop.type)
credit(_foods, event, pooptype) ==
    LET c == components(_foods, event)
    IN  [k \in DOMAIN c.foods |->
            IF k \in c.s THEN addpoop(c.foods[k], pooptype) ELSE c.foods[k]]

\* The body of the inner loop without the ignore list.
tagUnfiltered(_foods, poop, foodrow) ==
    IF foodrow.type # FOOD THEN _foods
    ELSE IF near(poop, foodrow) THEN credit(_foods, foodrow.event, poop.type)
    ELSE _foods

\* The body of the inner loop for one food row.
tag(_foods, poop, foodrow) ==
    IF foodrow.type # FOOD \/ foodrow.event \in IGNORE_FOODS THEN _foods
    ELSE IF near(poop, foodrow) THEN credit(_foods, foodrow.event, poop.type)
    ELSE _foods

\* The inner loop leaving at the first food row outside the window.
RECURSIVE foodLoopBreak(_, _, _, _)
foodLoopBreak(_foods, poop, rws, j) ==
    IF j > Len(rws) THEN _foods
    ELSE IF rws[j].type = FOOD /\ ~near(poop, rws[j]) THEN _foods
    ELSE foodLoopBreak(tag(_foods, poop, rws[j]), poop, rws, j + 1)

\* for foodrow in rows: ..., from the j-th row on.
RECURSIVE foodLoop(_, _, _, _)
foodLoop(_foods, poop, rws, j) ==
    IF j > Len(rws) THEN _foods
    ELSE foodLoop(tag(_foods, poop, rws[j]), poop, rws, j + 1)

\* One turn of the outer loop, for the k-th row.
poopStep(_foods, rws, k) ==
    IF rws[k].type # POOP THEN _foods
    ELSE foodLoop(_foods, to_poop(rws[k]), rws, 1)

\* The whole pass over rws from the k-th row on, starting from _foods.
RECURSIVE correlate(_, _, _)
correlate(_foods, rws, k) ==
    IF k > Len(rws) THEN _foods
    ELSE correlate(poopStep(_foods, rws, k), rws, k + 1)

(***************************************************************************)
(* main: the report.                                                       *)
(***************************************************************************)
\* The orders in which a set may be iterated.
RECURSIVE Orderings(_)
Orderings(S) ==
    IF S = {} THEN {<<>>}
    ELSE UNION {{<<x>> \o rest : rest \in Orderings(S \ {x})} : x \in S}

\* x put behind the last element whose quality is at most x's.
RECURSIVE insort(_, _)
insort(lst, x) ==
    IF lst = <<>> THEN <<x>>
    ELSE IF QualityLE(quality(lst[Len(lst)]), quality(x)) THEN Append(lst, x)
    ELSE Append(insort(SubSeq(lst, 1, Len(lst) - 1), x), lst[Len(lst)])

\* sorted(lst, key=lambda f: f.quality()): a stable sort.
RECURSIVE sorted(_)
sorted(lst) ==
    IF lst = <<>> THEN <<>>
    ELSE insort(sorted(SubSeq(lst, 1, Len(lst) - 1)), lst[Len(lst)])

\* The foods that pass the test `if food.confidence() < 0.9: continue`.
shown(_foods) == {food \in all(_foods) : ~FloatLess(confidence(food), THRESHOLD)}

\* The foods whose line is written, in the order of their lines, when the
\* set cupboard.all() is iterated in the order lst.
lines(lst, keep) == SelectSeq(sorted(lst), LAMBDA food : food \in keep)

\* Every report the loop may write: one for each order in which Python may
\* iterate the set cupboard.all().
reports(_foods) == {lines(lst, shown(_foods)) : lst \in Orderings(all(_foods))}

\* The foods of S of the lowest quality.
lowest(S) == {f \in S : \A g \in S : QualityLE(quality(f), quality(g))}

\* The sequences that list S by non-decreasing quality.
RECURSIVE byQuality(_)
byQuality(S) ==
    IF S = {} THEN {<<>>}
    ELSE {a \o rest : a \in Orderings(lowest(S)), rest \in byQuality(S \ lowest(S))}

\* reports(_foods), computed without sorting every iteration order: a stable
\* sort of an arbitrarily ordered list yields the shown foods by
\* non-decreasing quality, equal qualities in any order (ReportsAgree).
listings(_foods) == byQuality(shown(_foods))

(***************************************************************************)
(* The journal the model reads.                                            *)
(***************************************************************************)
NaiveDatetime(wall) ==
    [type |-> "datetime", iso |-> TRUE, wall |-> wall, aware |-> FALSE, utcoffset |-> 0]
UtcDatetime(wall) ==
    [type |-> "datetime", iso |-> TRUE, wall |-> wall, aware |-> TRUE, utcoffset |-> 0]
IsoString(wall) ==
    [type |-> "str", iso |-> TRUE, wall |-> wall, aware |-> FALSE, utcoffset |-> 0]
GarbageString ==
    [type |-> "str", iso |-> FALSE, wall |-> 0, aware |-> FALSE, utcoffset |-> 0]
NoneCell ==
    [type |-> "NoneType", iso |-> FALSE, wall |-> 0, aware |-> FALSE, utcoffset |-> 0]
FloatCell ==
    [type |-> "float", iso |-> FALSE, wall |-> 0, aware |-> FALSE, utcoffset |-> 0]

RawRow(ts, label) == [ts |-> ts, label |-> label]

RawRows ==
    { RawRow(NaiveDatetime(0), s_good_poop),
      RawRow(NaiveDatetime(86400), s_Bad_Poop_pad),
      RawRow(NaiveDatetime(86399), s_cream_cheese),
      RawRow(NaiveDatetime(86400), s_pad_Oat_Milk),
      RawRow(NaiveDatetime(0), s_oatmilk),
      RawRow(NaiveDatetime(86399), s_450_0_pad),
      RawRow(UtcDatetime(115199), s_coffee),
      RawRow(IsoString(0), s_cream_cheese),
      RawRow(GarbageString, s_cream_cheese),
      RawRow(NoneCell, s_oatmilk),
      RawRow(FloatCell, s_good_poop) }

Documents == UNION {[1..n -> RawRows] : n \in 0..MaxRows}

(***************************************************************************)
(* The run of main.                                                        *)
(***************************************************************************)
Init ==
    /\ doc \in Documents
    /\ rows = <<>>
    /\ pc = "load"
    /\ i = 1
    /\ foods = <<>>
    /\ report = <<>>
    /\ error = NoError
    /\ table = "INGREDIENTS"
    /\ stack = <<>>
    /\ ret = {}

Load ==
    /\ pc = "load"
    /\ LET r == loadRows(doc, <<>>)
       IN  /\ rows' = r.rows
           /\ error' = r.exc
           /\ pc' = IF r.exc # NoError THEN "aborted"
                    ELSE IF r.rows = <<>> THEN "render"
                    ELSE "correlate"
    /\ UNCHANGED <<doc, i, foods, report, table, stack, ret>>

Correlate ==
    /\ pc = "correlate"
    /\ foods' = poopStep(foods, rows, i)
    /\ i' = i + 1
    /\ pc' = IF i = Len(rows) THEN "render" ELSE "correlate"
    /\ UNCHANGED <<doc, rows, report, error, table, stack, ret>>

Render ==
    /\ pc = "render"
    /\ IF all(foods) = {}
       THEN /\ error' = EmptyMaxValueError
            /\ pc' = "aborted"
            /\ UNCHANGED report
       ELSE /\ report' \in listings(foods)
            /\ pc' = "done"
            /\ UNCHANGED error
    /\ UNCHANGED <<doc, rows, i, foods, table, stack, ret>>

Next == Load \/ Correlate \/ Render

Spec == Init /\ [][Next]_vars

\* The two computations of the report agree wherever a report is written.
ReportsAgree == pc = "render" => listings(foods) = reports(foods)

(***************************************************************************)
(* What the properties of the pass speak about.                            *)
(***************************************************************************)
\* The correlation pass has run to its end.
PassEnded ==
    \/ pc \in {"render", "done"}
    \/ pc = "aborted" /\ error = EmptyMaxValueError

Canonical(name) == get(<<>>, name).key

\* The (poop row, food row) pairs the pass looks at: the food's label is not
\* on the ignore list.
Candidates ==
    {pr \in (1..Len(rows)) \X (1..Len(rows)) :
        /\ rows[pr[1]].type = POOP
        /\ rows[pr[2]].type = FOOD
        /\ rows[pr[2]].event \notin IGNORE_FOODS}

\* Seconds from the poop of a pair to its food: negative when the food came first.
Apart(pr) == Instant(rows[pr[2]].datetime) - Instant(rows[pr[1]].datetime)

InWindow == {pr \in Candidates : -86400 < Apart(pr) /\ Apart(pr) < 86400}

\* The names reachable from a set of names through INGREDIENTS, as a least
\* fixed point.
RECURSIVE Reach(_)
Reach(S) ==
    LET step == S \cup UNION {INGREDIENTS[x] : x \in S \cap DOMAIN INGREDIENTS}
    IN  IF step = S THEN S ELSE Reach(step)

Closure(name) == Reach({Canonical(name)})

GoodCount(name) == IF name \in DOMAIN foods THEN foods[name].num_good_poops ELSE 0
BadCount(name) == IF name \in DOMAIN foods THEN foods[name].num_bad_poops ELSE 0

C2_ClosureCreditedOnce ==
    PassEnded =>
        \A name \in DOMAIN foods \cup UNION {Closure(rows[pr[2]].event) : pr \in Candidates} :
            /\ GoodCount(name) =
                 Cardinality({pr \in InWindow :
                     rows[pr[1]].event = s_good_poop /\ name \in Closure(rows[pr[2]].event)})
            /\ BadCount(name) =
                 Cardinality({pr \in InWindow :
                     rows[pr[1]].event = s_bad_poop /\ name \in Closure(rows[pr[2]].event)})
            /\ name \in DOMAIN foods <=>
                 \E pr \in InWindow : name \in Closure(rows[pr[2]].event)

\* A bad poop near a cream cheese (which decomposes twice) and near a coffee
\* (which has no ingredients) has been accounted.
C2_Witness ==
    /\ PassEnded
    /\ DOMAIN foods = {s_cream_cheese, s_cheese, s_dairy, s_coffee}
    /\ \A name \in DOMAIN foods : BadCount(name) = 1 /\ GoodCount(name) = 0

\* C4: once the rows are loaded, the run has not been ended by a row's
\* timestamp, and `rows` holds exactly the rows whose timestamp is a datetime
\* or a well-formed ISO-8601 string.
UsableTimestamp(raw) ==
    raw.ts.type = "datetime" \/ (raw.ts.type = "str" /\ raw.ts.iso)

C4_BadTimestampSkipped ==
    pc # "load" =>
        /\ error \notin {IsoformatValueError, NoTimestampError}
        /\ LET kept == SelectSeq(doc, UsableTimestamp)
           IN  rows = [k \in 1..Len(kept) |-> Row(kept[k]).row]

\* What holds of the code: the rows are loaded as C4 says in every run whose
\* sheet holds no malformed timestamp string.
SkippedUnlessMalformedString ==
    (pc # "load" /\ \A k \in 1..Len(doc) : doc[k].ts # GarbageString) =>
        /\ error \notin {IsoformatValueError, NoTimestampError}
        /\ LET kept == SelectSeq(doc, UsableTimestamp)
           IN  rows = [k \in 1..Len(kept) |-> Row(kept[k]).row]

\* C5: no Food is ever named by an ignore-listed label, and when the pass
\* has ended the counters are those of the pass over the rows without the
\* ignore-listed ones.
NotIgnored(row) == row.event \notin IGNORE_FOODS

C5_IgnoredNeverCounted ==
    /\ \A k \in DOMAIN foods : k \notin IGNORE_FOODS /\ foods[k].name \notin IGNORE_FOODS
    /\ PassEnded => foods = correlate(<<>>, SelectSeq(rows, NotIgnored), 1)

\* An ignore-listed food row lies within the window of a poop row, next to a
\* food that was credited.
C5_Witness ==
    /\ PassEnded
    /\ DOMAIN foods # {}
    /\ \E p, f \in 1..Len(rows) :
          /\ rows[p].type = POOP
          /\ rows[f].event \in IGNORE_FOODS
          /\ AbsDelta(rows[p].datetime, rows[f].datetime) < 86400

\* C8: when the pass has ended with an empty cupboard, the report is
\* rendered without an exception.
C8_EmptyCupboardGuarded ==
    (PassEnded /\ all(foods) = {} /\ pc # "render") =>
        (pc = "done" /\ error = NoError)

\* What holds of the code: a cupboard that is not empty is rendered.
RenderedUnlessEmpty ==
    (PassEnded /\ all(foods) # {} /\ pc # "render") => (pc = "done" /\ error = NoError)

\* C9: when the pass has ended, the cupboard is the one the pass builds from
\* every permutation of the rows.
Permuted(rws, perm) == [k \in 1..Len(rws) |-> rws[perm[k]]]

C9_OrderIndependent ==
    PassEnded =>
        \A perm \in Permutations(1..Len(rows)) :
            correlate(<<>>, Permuted(rows, perm), 1) = foods

\* Three rows, of which one food is in the window of the poop and one is not.
C9_Witness ==
    /\ PassEnded
    /\ Len(rows) >= 3
    /\ DOMAIN foods # {}
    /\ \E pr \in Candidates : pr \notin InWindow
    /\ \E pr \in InWindow : pr[2] > pr[1]
    /\ \E pr \in Candidates : pr \notin InWindow /\ pr[2] > pr[1]

(***************************************************************************)
(* The Cupboard driven call by call: doc is the list of calls a caller     *)
(* makes, i the next one.  A call is Cupboard.get(name),                   *)
(* Cupboard.components(name), or the crediting loop of main,               *)
(* `for food in cupboard.components(name): food.addpoop(type)`.            *)
(***************************************************************************)
RawNames == {s_pad_Oat_Milk, s_oatmilk, s_cream_cheese}

Calls ==
    {[op |-> o, name |-> n, type |-> <<>>] : o \in {"get", "components"}, n \in RawNames}
    \cup {[op |-> "credit", name |-> n, type |-> t] : n \in RawNames, t \in {GOOD, BAD}}

InitCupboard ==
    /\ doc \in UNION {[1..n -> Calls] : n \in 0..MaxCalls}
    /\ rows = <<>>
    /\ pc = "calls"
    /\ i = 1
    /\ foods = <<>>
    /\ report = <<>>
    /\ error = NoError
    /\ table = "INGREDIENTS"
    /\ stack = <<>>
    /\ ret = {}

GetCall ==
    /\ pc = "calls" /\ i <= Len(doc) /\ doc[i].op = "get"
    /\ foods' = get(foods, doc[i].name).foods
    /\ ret' = {get(foods, doc[i].name).key}
    /\ i' = i + 1
    /\ UNCHANGED <<doc, rows, pc, report, error, table, stack>>

ComponentsCall ==
    /\ pc = "calls" /\ i <= Len(doc) /\ doc[i].op = "components"
    /\ foods' = components(foods, doc[i].name).foods
    /\ ret' = components(foods, doc[i].name).s
    /\ i' = i + 1
    /\ UNCHANGED <<doc, rows, pc, report, error, table, stack>>

CreditCall ==
    /\ pc = "calls" /\ i <= Len(doc) /\ doc[i].op = "credit"
    /\ foods' = credit(foods, doc[i].name, doc[i].type)
    /\ ret' = components(foods, doc[i].name).s
    /\ i' = i + 1
    /\ UNCHANGED <<doc, rows, pc, report, error, table, stack>>

NextCupboard == GetCall \/ ComponentsCall \/ CreditCall

SpecCupboard == InitCupboard /\ [][NextCupboard]_vars

\* The canonical name of each raw name, written out.
ExpectedName ==
    s_pad_Oat_Milk :> s_oatmilk @@
    s_oatmilk :> s_oatmilk @@
    s_cream_cheese :> s_cream_cheese

\* The calls made so far that credit the raw name's food.
Credited(canonical) ==
    {k \in 1..(i - 1) : doc[k].op = "credit" /\ ExpectedName[doc[k].name] = canonical}

\* C3: after any calls of get and components, every Food is filed under its
\* own name, that name is trimmed, lowercased and no alias (so no Food named
\* "oat milk" exists), no two Foods share a name, raw names with the same
\* canonical name resolve to the same Food without a new one being made, and
\* the outcomes credited through any of them add up in that one Food.
C3_OneFoodPerCanonicalName ==
    /\ \A k \in DOMAIN foods :
          /\ foods[k].name = k
          /\ lower(strip(k)) = k
          /\ k \notin DOMAIN ALIASES
    /\ \A f1, f2 \in all(foods) : f1.name = f2.name => f1 = f2
    /\ \A r1, r2 \in RawNames :
          ExpectedName[r1] = ExpectedName[r2] =>
              LET first == get(foods, r1)
                  second == get(first.foods, r2)
              IN  /\ first.key = ExpectedName[r1]
                  /\ second.key = first.key
                  /\ second.foods = first.foods
    /\ \A r \in RawNames :
          GoodCount(ExpectedName[r]) + BadCount(ExpectedName[r])
              = Cardinality(Credited(ExpectedName[r]))

\* " Oat Milk" and "oatmilk" have both been credited, and the one Food
\* "oatmilk" holds both outcomes.
C3_Witness ==
    /\ pc = "calls"
    /\ \E a, b \in 1..(i - 1) :
          /\ doc[a].op = "credit" /\ doc[a].name = s_pad_Oat_Milk
          /\ doc[b].op = "credit" /\ doc[b].name = s_oatmilk
    /\ s_oatmilk \in DOMAIN foods
    /\ GoodCount(s_oatmilk) + BadCount(s_oatmilk) = 2

\* C6: the confidence of every Food lies in [0, 1) and is below that of a
\* Food with one more outcome.
C6_ConfidenceInUnitInterval ==
    \A food \in all(foods) :
        /\ ~FloatLess(confidence(food), FloatZero)
        /\ FloatLess(confidence(food), FloatOne)
        /\ FloatLess(confidence(food), confidence(addpoop(food, GOOD)))

\* What holds of the code: the same, of every Food with at least one outcome.
ConfidenceFromOneOutcome ==
    \A food \in all(foods) :
        food.num_good_poops + food.num_bad_poops >= 1 =>
            /\ ~FloatLess(confidence(food), FloatZero)
            /\ FloatLess(confidence(food), FloatOne)
            /\ FloatLess(confidence(food), confidence(addpoop(food, GOOD)))

(***************************************************************************)
(* The report alone, from the cupboards a pass may leave: each of three    *)
(* foods without ingredients is absent or has one of the listed counter    *)
(* pairs (a food is only made when it is credited, so no pair is <<0, 0>>). *)
(***************************************************************************)
Counters == {<<2, 0>>, <<18, 0>>, <<19, 0>>, <<10, 9>>, <<0, 19>>, <<20, 0>>, <<10, 10>>, <<5, 15>>}

ReportNames == {s_coffee, s_sugar, s_tomato}

Cupboards ==
    UNION {{[k \in S |-> [name |-> k, num_good_poops |-> c[k][1], num_bad_poops |-> c[k][2]]] :
               c \in [S -> Counters]} : S \in SUBSET ReportNames}

InitReport ==
    /\ doc = <<>>
    /\ rows = <<>>
    /\ pc = "render"
    /\ i = 1
    /\ foods \in Cupboards
    /\ report = <<>>
    /\ error = NoError
    /\ table = "INGREDIENTS"
    /\ stack = <<>>
    /\ ret = {}

SpecReport == InitReport /\ [][Render]_vars

\* C7: the written report lists exactly the foods with at least 19 outcomes
\* (those of confidence at least 0.9), each once, by non-decreasing quality.
C7_ReportListsConfidentFoods ==
    pc = "done" =>
        /\ {report[k] : k \in 1..Len(report)} =
              {food \in all(foods) : food.num_good_poops + food.num_bad_poops >= 19}
        /\ \A a, b \in 1..Len(report) :
              /\ a # b => report[a] # report[b]
              /\ a < b => QualityLE(quality(report[a]), quality(report[b]))

\* What holds of the code: the same, with 20 outcomes in place of 19.
ReportListsTwentyOutcomes ==
    pc = "done" =>
        /\ {report[k] : k \in 1..Len(report)} =
              {food \in all(foods) : food.num_good_poops + food.num_bad_poops >= 20}
        /\ \A a, b \in 1..Len(report) :
              /\ a # b => report[a] # report[b]
              /\ a < b => QualityLE(quality(report[a]), quality(report[b]))

(***************************************************************************)
(* Cupboard.components call by call, over ingredient tables that may hold  *)
(* a cycle.  stack holds one record per active call: the Food got from the *)
(* cupboard, the set s built so far and the ingredients the for loop has   *)
(* yet to visit.  MaxDepth stands for the interpreter's recursion limit.   *)
(***************************************************************************)
Tables == {"INGREDIENTS", "self", "pair", "triangle", "diamond"}

TableOf(t) ==
    CASE t = "INGREDIENTS" -> INGREDIENTS
      [] t = "self" -> s_milk :> {s_milk}
      [] t = "pair" -> s_milk :> {s_dairy} @@ s_dairy :> {s_milk}
      [] t = "triangle" ->
            s_cream_cheese :> {s_cheese} @@ s_cheese :> {s_dairy} @@
            s_dairy :> {s_cream_cheese}
      [] t = "diamond" ->
            s_latte :> {s_milk, s_cheese} @@ s_milk :> {s_dairy} @@
            s_cheese :> {s_dairy}

NamesOf(t) == DOMAIN TableOf(t) \cup UNION {TableOf(t)[k] : k \in DOMAIN TableOf(t)}

\* The activation record of components(name), after `food = self.get(name)`
\* and `s = {food}`.
Frame(t, key) ==
    [food |-> key,
     s |-> {key},
     todo |-> IF key \in DOMAIN TableOf(t) THEN TableOf(t)[key] ELSE {}]

InitComponents ==
    /\ doc = <<>>
    /\ rows = <<>>
    /\ pc = "call"
    /\ i = 1
    /\ foods = <<>>
    /\ report = <<>>
    /\ error = NoError
    /\ table \in Tables
    /\ stack = <<>>
    /\ ret = {}

\* The caller's cupboard.components(name).
Enter ==
    /\ pc = "call"
    /\ \E name \in NamesOf(table) :
          /\ foods' = get(foods, name).foods
          /\ stack' = <<Frame(table, get(foods, name).key)>>
    /\ pc' = "running"
    /\ UNCHANGED <<doc, rows, i, report, error, table, ret>>

\* One turn of `for f in INGREDIENTS.get(food.name, set())`: the call
\* self.components(f), or RecursionError when the stack is full.
Recurse ==
    /\ pc = "running"
    /\ \E f \in stack[Len(stack)].todo :
          IF Len(stack) < MaxDepth
          THEN /\ foods' = get(foods, f).foods
               /\ stack' = Append([stack EXCEPT ![Len(stack)].todo = @ \ {f}],
                                  Frame(table, get(foods, f).key))
               /\ UNCHANGED <<pc, error>>
          ELSE /\ pc' = "aborted"
               /\ error' = RecursionError
               /\ UNCHANGED <<foods, stack>>
    /\ UNCHANGED <<doc, rows, i, report, table, ret>>

\* `return s`: into s.update(...) of the calling activation, or to the caller.
Return ==
    /\ pc = "running"
    /\ stack[Len(stack)].todo = {}
    /\ IF Len(stack) = 1
       THEN /\ ret' = stack[1].s
            /\ stack' = <<>>
            /\ pc' = "returned"
       ELSE /\ stack' = [SubSeq(stack, 1, Len(stack) - 1) EXCEPT
                            ![Len(stack) - 1].s = @ \cup stack[Len(stack)].s]
            /\ UNCHANGED <<ret, pc>>
    /\ UNCHANGED <<doc, rows, i, foods, report, error, table>>

NextComponents == Enter \/ Recurse \/ Return

SpecComponents == InitComponents /\ [][NextComponents]_vars

\* Over the module's own table the calls return what components computes.
ComponentsAgree ==
    (pc = "returned" /\ table = "INGREDIENTS") =>
        \E name \in ret : /\ ret = components(<<>>, name).s
                          /\ foods = components(<<>>, name).foods

\* C10: the expansion is cycle-safe: no food is expanded again while its own
\* expansion is still running, and the calls never run out of stack.
C10_ComponentsTerminates ==
    /\ error # RecursionError
    /\ \A a, b \in 1..Len(stack) : a # b => stack[a].food # stack[b].food

\* What holds of the code: the same, over the tables without a cycle.
AcyclicTerminates ==
    table \in {"INGREDIENTS", "diamond"} =>
        /\ error # RecursionError
        /\ \A a, b \in 1..Len(stack) : a # b => stack[a].food # stack[b].food

==========================================================================
